---- MODULE Spec2Model ----
(***************************************************************************)
(* The command/response bridge of the web video editor:                    *)
(* FFmpegClient (src/src/lib/ffmpegClient.ts) on the main thread and the   *)
(* FFmpeg web worker (src/src/pages/Index.tsx, lines 506-1000).            *)
(*                                                                         *)
(* One main-thread task (a caller invocation, a FileReader completion, a   *)
(* message event of the worker, the timeout timer, terminate()) is one     *)
(* action: the microtasks it schedules (continuations of `await`) run      *)
(* before the next task and are part of the action.                        *)
(***************************************************************************)
EXTENDS Integers, Sequences, FiniteSets, TLC

\* ---- bounds ------------------------------------------------------------
MaxCalls == 2        \* caller invocations of load / trim / extractFrames / convert / merge
MaxEvents == 1       \* progress or log events the worker emits per command
MaxCrashes == 1      \* error events the worker raises outside the protocol
MaxClips == 3        \* clips of a merge
MaxBytes == 2        \* bytes of an output file
MaxFrames == 2       \* frames of an extraction
MaxEngineEvents == 2 \* progress events the engine emits while a command runs
MaxNow == 2          \* values of Date.now()
MaxFiles == 1        \* files the user hands to the uploader

Calls == 1..MaxCalls
CommandKinds == {"trim", "frames", "convert", "merge"}
Kinds == {"load"} \cup CommandKinds

VARIABLES
  sab,              \* typeof SharedArrayBuffer !== 'undefined'
  worker,           \* this.worker: 0 is null, otherwise the id of the Worker instance
  created,          \* number of Worker instances constructed so far
  isLoaded,         \* this.isLoaded
  loadPromise,      \* this.loadPromise: [state, error]
  loadWaiters,      \* calls awaiting this.loadPromise, in await order
  currentCallback,  \* this.currentCallback: 0 is null, otherwise the call whose callback it is
  logs,             \* this.logs
  timeoutId,        \* this.timeoutId: 0 is null, otherwise the call whose callback the timer holds
  timers,           \* timers set by window.setTimeout, neither expired nor cleared: the calls whose callback they hold
  calls,            \* per invocation: kind, position, returned promise
  updates,          \* per invocation: the ProcessingState values its callback received
  engine,           \* worker side: ffmpeg / isLoaded of the live worker
  inbox,            \* messages posted to the live worker, not yet handled
  outbox,           \* messages the live worker sent, not yet dispatched on the main thread
  loadListener,     \* handleLoad is registered on the live worker
  resultListeners,  \* calls whose handleResult is registered on the live worker, in order
  loadsPosted,      \* load messages posted to the live worker
  crashes           \* error events raised by workers so far

\* One command followed through the worker (execute*, Index.tsx 631-951) and
\* through the handleResult that materializes its output
VARIABLES
  quality,          \* ConvertControls: the quality state
  shownCrf,         \* ConvertControls: the CRF text on screen when Convert was clicked ("" for a direct call)
  command,          \* the FFmpegCommand of the execute message and its settings
  at,               \* where the command is: idle, posted, exec, normalizing, loop, concat, fallback, complete, failed, resolved
  clipIndex,        \* executeMerge: i
  normalizedFiles,  \* executeMerge: normalizedFiles
  mergeArgs,        \* executeMerge: mergeArgs
  execCalls,        \* the argument lists ffmpeg.exec was called with, in order
  posted,           \* the messages the worker sent for the command, in order
  engineEvents,     \* progress events the engine has emitted for the command
  payload,          \* payload of the complete message
  exportResult,     \* the ExportResult the promise resolved with
  vfs               \* the names in the engine's virtual filesystem (files and directories)

\* The page (Index.tsx 51-504) and the object URLs it is responsible for
VARIABLES
  mounted,          \* the Index page is rendered and passes setProcessingState to the client
  processingState,  \* processingState.status
  video,            \* video.objectUrl (0: video is null)
  exports,          \* the exports list: type, objectUrl (0: '') and the URLs of the frames
  previewResult,    \* previewResult (NoPreview: null)
  urlCount,         \* object URLs created so far; they are numbered in order of creation
  liveUrls,         \* object URLs created and not released
  revokedUrls,      \* object URLs released by URL.revokeObjectURL
  probing,          \* object URLs of files whose metadata the uploader is loading
  revokeTimers,     \* timers set by revokeObjectURLDeferred and not yet expired: url, delay, time elapsed (ms)
  filesChosen       \* files handed to the uploader so far

uiVars == <<mounted, processingState, video, exports, previewResult, urlCount, liveUrls,
            revokedUrls, probing, revokeTimers, filesChosen>>

pipelineVars == <<quality, shownCrf, command, at, clipIndex, normalizedFiles, mergeArgs,
                  execCalls, posted, engineEvents, payload, exportResult, vfs>>

clientVars == <<worker, created, isLoaded, loadPromise, loadWaiters, currentCallback, logs,
                timeoutId, timers>>
workerVars == <<engine, inbox, outbox, loadListener, resultListeners, loadsPosted>>
vars == <<sab, worker, created, isLoaded, loadPromise, loadWaiters, currentCallback, logs,
          timeoutId, timers, calls, updates, engine, inbox, outbox, loadListener,
          resultListeners, loadsPosted, crashes, pipelineVars, uiVars>>

\* the variables of the bridge
bridgeVars == <<sab, clientVars, calls, updates, workerVars, crashes>>

\* ---- messages ------------------------------------------------------------
NoPromise == [state |-> "null", error |-> ""]

IdleCall == [kind |-> "none", cb |-> FALSE, pc |-> "idle", promise |-> "none",
             error |-> "", lw |-> 0, result |-> 0, clips |-> 0]

\* ProcessingState handed to a callback
Upd(status, progress, message, lg) ==
  [status |-> status, progress |-> progress, message |-> message, logs |-> lg]

\* WorkerResponse; `call` is the command the worker was executing (0 for a load)
Ev(type, call, progress, step, message, out) ==
  [type |-> type, call |-> call, progress |-> progress, step |-> step,
   message |-> message, out |-> out]

LoadMsg == [type |-> "load", call |-> 0]
ExecMsg(c) == [type |-> "execute", call |-> c]

\* callback(state), when a callback exists
NotifyIf(u, c, has, upd) ==
  IF c # 0 /\ has THEN [u EXCEPT ![c] = Append(@, upd)] ELSE u

Notify(u, c, upd) == NotifyIf(u, c, c # 0 /\ calls[c].cb, upd)

\* the payload field a complete event carries for a command kind
OutOf(kind) == IF kind = "frames" THEN "frames" ELSE "data"

SeqToSet(s) == {s[i] : i \in 1..Len(s)}

\* FFmpegCommand with the settings the worker reads; clips is clips.length
Cmd(type, mode, q, format, clips) ==
  [type |-> type, mode |-> mode, quality |-> q, format |-> format, clips |-> clips]

NoCommand == Cmd("none", "", "", "", 0)

\* payload of a complete message: data, or frames as a list of [name, data]
Payload(field, data, frames) == [field |-> field, data |-> data, frames |-> frames]

NoPayload == Payload("none", <<>>, <<>>)

\* URL.createObjectURL(new Blob([bytes], {type})); '' addresses nothing
ObjectUrl(type, bytes) == [type |-> type, bytes |-> bytes]

NoUrl == ObjectUrl("", <<>>)

NoExport == [type |-> "none", filename |-> "", size |-> 0, data |-> <<>>,
             objectUrl |-> NoUrl, frames |-> <<>>]

\* no command has been submitted
PipelineIdle ==
  /\ quality = "medium"
  /\ shownCrf = ""
  /\ command = NoCommand
  /\ at = "idle"
  /\ clipIndex = 0
  /\ normalizedFiles = <<>>
  /\ mergeArgs = <<>>
  /\ execCalls = <<>>
  /\ posted = <<>>
  /\ engineEvents = 0
  /\ payload = NoPayload
  /\ exportResult = NoExport
  /\ vfs = {}

\* the client after construction (ffmpegClient.ts 32-48)
FreshClient ==
  /\ sab \in BOOLEAN
  /\ worker = 1
  /\ created = 1
  /\ isLoaded = FALSE
  /\ loadPromise = NoPromise
  /\ loadWaiters = <<>>
  /\ currentCallback = 0
  /\ logs = <<>>
  /\ timeoutId = 0
  /\ timers = {}
  /\ calls = [c \in Calls |-> IdleCall]
  /\ updates = [c \in Calls |-> <<>>]
  /\ engine = "unloaded"
  /\ inbox = <<>>
  /\ outbox = <<>>
  /\ loadListener = FALSE
  /\ resultListeners = <<>>
  /\ loadsPosted = 0
  /\ crashes = 0

NoPreview == [type |-> "none", objectUrl |-> 0, frames |-> {}]

\* the state of the page when it is first rendered (Index.tsx 51-65)
PageIdle ==
  /\ processingState = "idle"
  /\ video = 0
  /\ exports = <<>>
  /\ previewResult = NoPreview
  /\ urlCount = 0
  /\ liveUrls = {}
  /\ revokedUrls = {}
  /\ probing = {}
  /\ revokeTimers = {}
  /\ filesChosen = 0

\* the client used by callers of their own, the page not rendered
Init ==
  /\ FreshClient
  /\ PipelineIdle
  /\ mounted = FALSE
  /\ PageIdle

\* ---- FFmpegClient ---------------------------------------------------------

Resolved(call, res) == [call EXCEPT !.pc = "done", !.promise = "resolved", !.result = res]
Rejected(call, err) == [call EXCEPT !.pc = "done", !.promise = "rejected", !.error = err]

\* load() that posts a load on every call made before the engine is loaded
LoadBranch_NoMemo ==
  IF isLoaded THEN "ready"
  ELSE IF ~sab THEN "capability"
  ELSE IF loadPromise.state = "resolved" THEN "ready"
  ELSE IF loadPromise.state = "rejected" THEN "failed"
  ELSE IF worker = 0 THEN "noworker"
  ELSE "post"

\* load() that tests for SharedArrayBuffer only after it has posted the load
LoadBranch_LateCapability ==
  IF isLoaded THEN "ready"
  ELSE IF loadPromise.state = "pending" THEN IF sab THEN "join" ELSE "capability"
  ELSE IF loadPromise.state = "resolved" THEN "ready"
  ELSE IF loadPromise.state = "rejected" THEN "failed"
  ELSE IF worker = 0 THEN "noworker"
  ELSE "post"

\* load() that posts a load message although the engine is loaded
LoadBranch_Reloads ==
  IF isLoaded THEN "post"
  ELSE IF ~sab THEN "capability"
  ELSE IF loadPromise.state = "pending" THEN "join"
  ELSE IF loadPromise.state = "resolved" THEN "ready"
  ELSE IF loadPromise.state = "rejected" THEN "failed"
  ELSE IF worker = 0 THEN "noworker"
  ELSE "post"

\* load() that posts a new load message once the earlier load has failed
LoadBranch_RetriesFailure ==
  IF isLoaded THEN "ready"
  ELSE IF ~sab THEN "capability"
  ELSE IF loadPromise.state = "pending" THEN "join"
  ELSE IF loadPromise.state = "resolved" THEN "ready"
  ELSE IF worker = 0 THEN "noworker"
  ELSE "post"

\* the branch load() takes
LoadBranch ==
  IF isLoaded THEN "ready"
  ELSE IF ~sab THEN "capability"
  ELSE IF loadPromise.state = "pending" THEN "join"
  ELSE IF loadPromise.state = "resolved" THEN "ready"
  ELSE IF loadPromise.state = "rejected" THEN "failed"
  ELSE IF worker = 0 THEN "noworker"
  ELSE "post"

\* the live worker is gone: nothing it held is reachable any more
WorkerGone ==
  /\ engine' = "unloaded"
  /\ inbox' = <<>>
  /\ outbox' = <<>>
  /\ loadListener' = FALSE
  /\ resultListeners' = <<>>
  /\ loadsPosted' = 0

\* clearTimeout(): the timer this.timeoutId names is cancelled
clearTimeout(armed, id) == armed \ {id}

\* startTimeout(callback) that sets its timer without clearing the one before
startTimeout_KeepsEarlier(armed, id, c) == armed \cup {c}

\* startTimeout(callback): the timers armed after it
startTimeout(armed, id, c) == clearTimeout(armed, id) \cup {c}

\* the commands of `begun` go on after their load, each calling startTimeout
RECURSIVE StartTimeouts(_, _, _)
StartTimeouts(armed, id, begun) ==
  IF begun = <<>> THEN armed
  ELSE StartTimeouts(startTimeout(armed, id, Head(begun)), Head(begun), Tail(begun))

\* ---- what the page does in a step of the client ---------------------------

\* the ExportResult handleResult builds for a command, as the page holds it:
\* its type and the object URLs created for it, the URLs after the n-th (a
\* frames export has objectUrl '' and one URL per frame)
Listed(kind, n) ==
  IF kind = "frames"
  THEN [type |-> kind, objectUrl |-> 0, frames |-> {n + k : k \in 1..MaxFrames}]
  ELSE [type |-> kind, objectUrl |-> n + 1, frames |-> {}]

\* the object URLs of an ExportResult
UrlsOf(result) ==
  (IF result.objectUrl # 0 THEN {result.objectUrl} ELSE {}) \cup result.frames

\* setExports((prev) => [result, ...prev]) for the commands that resolved, in
\* the order their promises were resolved
RECURSIVE AddExports(_, _, _)
AddExports(list, resolved, n) ==
  IF resolved = <<>> THEN [exports |-> list, urlCount |-> n]
  ELSE LET result == Listed(calls[Head(resolved)].kind, n)
       IN AddExports(<<result>> \o list, Tail(resolved),
                     n + Cardinality(UrlsOf(result)))

\* The rendered page passes setProcessingState as the callback of every
\* command and awaits the promise in handleTrim, handleExtractFrames or
\* handleConvert: a status update of the step is shown, and the continuation of
\* a handler whose promise settled in the step runs after it, listing the
\* result and showing complete, or showing error.
PageStep ==
  IF ~mounted THEN UNCHANGED uiVars
  ELSE
    LET settled == {c \in Calls : /\ calls[c].promise \notin {"resolved", "rejected"}
                                  /\ calls'[c].promise \in {"resolved", "rejected"}}
        resolved == SelectSeq(resultListeners,
                              LAMBDA c : c \in settled /\ calls'[c].promise = "resolved")
        told == {c \in Calls : Len(updates'[c]) > Len(updates[c])}
        added == AddExports(exports, resolved, urlCount)
    IN /\ processingState' =
            IF settled # {}
            THEN IF \E c \in settled : calls'[c].promise = "rejected" THEN "error"
                 ELSE "complete"
            ELSE IF told # {}
            THEN LET c == CHOOSE d \in told : TRUE
                 IN updates'[c][Len(updates'[c])].status
            ELSE processingState
       /\ exports' = added.exports
       /\ urlCount' = added.urlCount
       /\ liveUrls' = liveUrls \cup ((urlCount + 1)..added.urlCount)
       /\ UNCHANGED <<mounted, video, previewResult, revokedUrls, probing, revokeTimers,
                      filesChosen>>

\* a caller invokes load(callback?) or a command(…, callback)
\* merge that rejects only an empty list of clips
FewClips_OnlyEmpty(kind, nclips) == kind = "merge" /\ nclips < 1

\* FFmpegClient.merge: clips.length < 2
FewClips(kind, nclips) == kind = "merge" /\ nclips < 2

Invoke(c, kind, cb, nclips) ==
  /\ calls[c].pc = "idle"
  /\ \A d \in Calls : d < c => calls[d].pc # "idle"
  /\ kind \in CommandKinds => cb
  /\ kind # "merge" => nclips = 2
  /\ LET me == [IdleCall EXCEPT !.kind = kind, !.cb = cb, !.promise = "pending",
                                !.clips = nclips]
         b == IF FewClips(kind, nclips) THEN "fewclips" ELSE LoadBranch
         begins == b = "ready" /\ kind # "load"
     IN /\ calls' = [calls EXCEPT ![c] =
              CASE b = "fewclips" -> Rejected(me, "fewclips")
                [] b = "ready" -> IF kind = "load" THEN Resolved(me, 0)
                                  ELSE [me EXCEPT !.pc = "reading"]
                [] b = "capability" -> Rejected(me, "capability")
                [] b = "failed" -> Rejected(me, loadPromise.error)
                [] b = "noworker" -> Rejected(me, "noworker")
                [] b \in {"join", "post"} -> [me EXCEPT !.pc = "awaitLoad", !.lw = worker]]
        /\ updates' =
              CASE b = "capability" -> NotifyIf(updates, c, cb, Upd("error", 0, "capability", <<>>))
                [] b = "post" -> NotifyIf(updates, c, cb, Upd("loading", 0, "Loading FFmpeg...", <<>>))
                [] OTHER -> updates
        /\ loadPromise' =
              CASE b = "noworker" -> [state |-> "rejected", error |-> "noworker"]
                [] b = "post" -> [state |-> "pending", error |-> ""]
                [] OTHER -> loadPromise
        /\ loadWaiters' = IF b \in {"join", "post"} THEN Append(loadWaiters, c) ELSE loadWaiters
        /\ loadListener' = IF b = "post" THEN TRUE ELSE loadListener
        /\ inbox' = IF b = "post" THEN Append(inbox, LoadMsg) ELSE inbox
        /\ loadsPosted' = IF b = "post" THEN loadsPosted + 1 ELSE loadsPosted
        /\ logs' = IF begins THEN <<>> ELSE logs
        /\ currentCallback' = IF begins THEN c ELSE currentCallback
        /\ timeoutId' = IF begins THEN c ELSE timeoutId
        /\ timers' = IF begins THEN startTimeout(timers, timeoutId, c) ELSE timers
  /\ UNCHANGED <<sab, pipelineVars, worker, created, isLoaded, engine, outbox,
                 resultListeners, crashes>>
  /\ PageStep

\* readFileAsArrayBuffer settles; then the command promise is created
ReadDone(c, ok) ==
  /\ calls[c].pc = "reading"
  /\ IF ~ok THEN
       /\ calls' = [calls EXCEPT ![c] = Rejected(@, "read")]
       /\ UNCHANGED <<resultListeners, inbox>>
     ELSE IF worker = 0 THEN
       /\ calls' = [calls EXCEPT ![c] = Rejected(@, "noworker")]
       /\ UNCHANGED <<resultListeners, inbox>>
     ELSE
       /\ calls' = [calls EXCEPT ![c] = [@ EXCEPT !.pc = "executing", !.lw = worker]]
       /\ resultListeners' = Append(resultListeners, c)
       /\ inbox' = Append(inbox, ExecMsg(c))
  /\ UNCHANGED <<sab, pipelineVars, clientVars, updates, engine, outbox, loadListener,
                 loadsPosted, crashes>>
  /\ PageStep

\* a decimal digit as a string
Digit(d) == <<"0", "1", "2", "3", "4", "5", "6", "7", "8", "9">>[d + 1]

\* Number.prototype.toString of a natural number
RECURSIVE toString(_)
toString(n) == IF n < 10 THEN Digit(n) ELSE toString(n \div 10) \o Digit(n % 10)

\* message of a progress status update that prefers the message to the step
ProgressMessage_MessageFirst(step, message, progress) ==
  IF message # "" THEN message
  ELSE IF step # "" THEN step
  ELSE "Processing... " \o toString(progress) \o "%"

\* message of a progress status update:
\* (payload.step || payload.message || '') || `Processing... ${payload.progress}%`
ProgressMessage(step, message, progress) ==
  IF step # "" THEN step
  ELSE IF message # "" THEN message
  ELSE "Processing... " \o toString(progress) \o "%"

\* commands among the waiters of the load promise, in await order
CmdWaiters == SelectSeq(loadWaiters, LAMBDA c : calls[c].kind # "load")

\* handleMessage(event) whose complete case clears the timer and calls nothing
handleMessage_SilentComplete(e) ==
  LET pushed == IF e.type = "log" /\ e.message # "" THEN Append(logs, e.message) ELSE logs
  IN [isLoaded |-> IF e.type = "loaded" THEN TRUE ELSE isLoaded,
      logs |-> pushed,
      timeoutId |-> IF e.type \in {"complete", "error"} THEN 0 ELSE timeoutId,
      timers |-> IF e.type \in {"complete", "error"} THEN clearTimeout(timers, timeoutId)
                 ELSE timers,
      updates |->
        CASE e.type = "progress" /\ e.progress >= 0 ->
               Notify(updates, currentCallback,
                      Upd("processing", e.progress,
                          ProgressMessage(e.step, e.message, e.progress), logs))
          [] e.type = "log" /\ e.message # "" ->
               Notify(updates, currentCallback, Upd("processing", 0, e.message, pushed))
          [] e.type = "complete" -> updates
          [] e.type = "error" ->
               Notify(updates, currentCallback,
                      Upd("error", 0, IF e.message # "" THEN e.message ELSE "Unknown error",
                          logs))
          [] OTHER -> updates]

\* handleMessage(event): the fields it leaves behind
handleMessage(e) ==
  LET pushed == IF e.type = "log" /\ e.message # "" THEN Append(logs, e.message) ELSE logs
  IN [isLoaded |-> IF e.type = "loaded" THEN TRUE ELSE isLoaded,
      logs |-> pushed,
      timeoutId |-> IF e.type \in {"complete", "error"} THEN 0 ELSE timeoutId,
      timers |-> IF e.type \in {"complete", "error"} THEN clearTimeout(timers, timeoutId)
                 ELSE timers,
      updates |->
        CASE e.type = "progress" /\ e.progress >= 0 ->
               Notify(updates, currentCallback,
                      Upd("processing", e.progress,
                          ProgressMessage(e.step, e.message, e.progress), logs))
          [] e.type = "log" /\ e.message # "" ->
               Notify(updates, currentCallback, Upd("processing", 0, e.message, pushed))
          [] e.type = "complete" ->
               Notify(updates, currentCallback,
                      Upd("complete", 100, "Processing complete!", logs))
          [] e.type = "error" ->
               Notify(updates, currentCallback,
                      Upd("error", 0, IF e.message # "" THEN e.message ELSE "Unknown error",
                          logs))
          [] OTHER -> updates]

\* handleLoad(event) of the pending load promise: what it does with the promise
handleLoad(e) ==
  IF ~loadListener THEN "none"
  ELSE IF e.type = "loaded" THEN "resolve"
  ELSE IF e.type = "error" THEN "reject"
  ELSE "none"

\* handleResult(event) of a command: the call after the event; a complete
\* without the payload field of the command removes the listener and settles
\* nothing
handleResult(call, e) ==
  IF e.type = "error" THEN Rejected(call, e.message)
  ELSE IF e.type # "complete" THEN call
  ELSE IF e.out = OutOf(call.kind) THEN Resolved(call, e.call)
  ELSE [call EXCEPT !.pc = "deaf"]

\* handleResult listeners that stay on the worker whatever event they see
StillListening_NeverRemoved(e) == resultListeners

\* the handleResult listeners left on the worker after event e: each of them
\* removes itself when it sees a complete or an error
StillListening(e) ==
  IF e.type \in {"complete", "error"} THEN <<>> ELSE resultListeners

\* the main thread dispatches the next message event of the live worker:
\* handleMessage (worker.onmessage), then the listeners added since (handleLoad,
\* every handleResult), then the continuations of `await this.load(callback)`
Deliver ==
  /\ worker # 0
  /\ outbox # <<>>
  /\ LET e == Head(outbox)
         hm == handleMessage(e)
         hl == handleLoad(e)
         heard == IF e.type \in {"complete", "error"} THEN SeqToSet(resultListeners) ELSE {}
         woken == IF hl # "none" THEN SeqToSet(loadWaiters) ELSE {}
         begun == IF hl = "resolve" THEN CmdWaiters ELSE <<>>
     IN /\ outbox' = Tail(outbox)
        /\ isLoaded' = hm.isLoaded
        /\ updates' = hm.updates
        /\ loadListener' = IF hl # "none" THEN FALSE ELSE loadListener
        /\ loadPromise' =
             CASE hl = "resolve" -> [state |-> "resolved", error |-> ""]
               [] hl = "reject" -> [state |-> "rejected", error |-> e.message]
               [] OTHER -> loadPromise
        /\ loadWaiters' = IF hl # "none" THEN <<>> ELSE loadWaiters
        /\ resultListeners' = StillListening(e)
        /\ calls' = [c \in Calls |->
             IF c \in woken THEN
               IF hl = "reject" THEN Rejected(calls[c], e.message)
               ELSE IF calls[c].kind = "load" THEN Resolved(calls[c], 0)
               ELSE [calls[c] EXCEPT !.pc = "reading"]
             ELSE IF c \in heard THEN handleResult(calls[c], e)
             ELSE calls[c]]
        \* this.logs = []; this.currentCallback = callback; this.startTimeout(callback)
        /\ logs' = IF begun # <<>> THEN <<>> ELSE hm.logs
        /\ currentCallback' = IF begun # <<>> THEN begun[Len(begun)] ELSE currentCallback
        /\ timeoutId' = IF begun # <<>> THEN begun[Len(begun)] ELSE hm.timeoutId
        /\ timers' = StartTimeouts(hm.timers, hm.timeoutId, begun)
  /\ UNCHANGED <<sab, pipelineVars, worker, created, engine, inbox, loadsPosted, crashes>>
  /\ PageStep

\* terminate() with the timer cleared but the load promise kept
terminate_KeepsLoadPromise ==
  /\ timeoutId' = 0
  /\ isLoaded' = FALSE
  /\ UNCHANGED <<loadPromise, loadWaiters>>
  /\ WorkerGone

\* terminate() that forgets the load promise but keeps isLoaded
terminate_KeepsIsLoaded ==
  /\ timeoutId' = 0
  /\ UNCHANGED isLoaded
  /\ loadPromise' = NoPromise
  /\ loadWaiters' = <<>>
  /\ WorkerGone

\* terminate(): the timer, the worker and the session fields (this.worker and
\* the timers still armed are set by the action that calls it, which may
\* install a new worker at once)
terminate ==
  /\ timeoutId' = 0
  /\ isLoaded' = FALSE
  /\ loadPromise' = NoPromise
  /\ loadWaiters' = <<>>
  /\ WorkerGone

\* the owner of the client calls terminate()
Terminate ==
  /\ terminate
  /\ timers' = clearTimeout(timers, timeoutId)
  /\ worker' = 0
  /\ UNCHANGED <<sab, uiVars, pipelineVars, created, currentCallback, logs, calls, updates, crashes>>

\* the timer armed by startTimeout(callback) expires
TimerFire ==
  \E t \in timers :
    /\ updates' = Notify(updates, t, Upd("error", 0, "timeout", logs))
    /\ terminate
    /\ timers' = clearTimeout(timers \ {t}, timeoutId)
    \* this.initWorker()
    /\ worker' = created + 1
    /\ created' = created + 1
    /\ UNCHANGED <<sab, pipelineVars, currentCallback, logs, calls, crashes>>
    /\ PageStep

\* worker.onerror that posts the running command to the worker again
handleError_Retries ==
  /\ worker # 0
  /\ crashes < MaxCrashes
  /\ crashes' = crashes + 1
  /\ timeoutId' = 0
  /\ timers' = clearTimeout(timers, timeoutId)
  /\ updates' = Notify(updates, currentCallback, Upd("error", 0, "Worker error", logs))
  /\ inbox' = IF currentCallback # 0 THEN Append(inbox, ExecMsg(currentCallback)) ELSE inbox
  /\ UNCHANGED <<sab, pipelineVars, worker, created, isLoaded, loadPromise, loadWaiters, currentCallback,
                 logs, calls, engine, outbox, loadListener, resultListeners, loadsPosted>>
  /\ PageStep

\* worker.onerror: the worker raises an error event outside the protocol
handleError ==
  /\ worker # 0
  /\ crashes < MaxCrashes
  /\ crashes' = crashes + 1
  /\ timeoutId' = 0
  /\ timers' = clearTimeout(timers, timeoutId)
  /\ updates' = Notify(updates, currentCallback, Upd("error", 0, "Worker error", logs))
  /\ UNCHANGED <<sab, pipelineVars, worker, created, isLoaded, loadPromise, loadWaiters, currentCallback,
                 logs, calls, workerVars>>
  /\ PageStep

\* ---- the FFmpeg web worker --------------------------------------------------
\* The main thread sees a worker only through the messages it sends, so a
\* handler of the worker is one action that appends everything it sends.

LogEv(call, m) == Ev("log", call, -1, "", m, "none")

\* progressHandler / the progress messages of executeMerge
ProgressEv(call, kind) ==
  IF kind = "merge"
  THEN Ev("progress", call, 50, "Preparing merge...", "Preparing merge...", "none")
  ELSE Ev("progress", call, 50, "", "", "none")

\* the progress and log messages a command may send before its terminal one
Reports(call, kind) ==
  UNION {[1..n -> {LogEv(call, "ffmpeg output"), ProgressEv(call, kind)}] : n \in 0..MaxEvents}

\* self.onmessage, case 'load': loadFFmpeg up to its first await
WorkerStartLoad ==
  /\ worker # 0
  /\ inbox # <<>>
  /\ Head(inbox).type = "load"
  /\ inbox' = Tail(inbox)
  /\ IF engine = "loaded" THEN UNCHANGED <<engine, outbox>>
     ELSE /\ engine' = "loading"
          /\ outbox' = Append(outbox, LogEv(0, "Loading FFmpeg core..."))
  /\ UNCHANGED <<sab, uiVars, pipelineVars, clientVars, calls, updates, loadListener, resultListeners,
                 loadsPosted, crashes>>

\* loadFFmpeg ends: ffmpeg.load resolved, or something threw
WorkerFinishLoad(ok) ==
  /\ worker # 0
  /\ engine = "loading"
  /\ IF ok THEN
       /\ engine' = "loaded"
       /\ outbox' = outbox \o <<LogEv(0, "FFmpeg loaded successfully"),
                                Ev("loaded", 0, -1, "", "", "none")>>
     ELSE
       /\ engine' = "failed"
       /\ outbox' = outbox \o <<LogEv(0, "FFmpeg load error details"),
                                Ev("error", 0, -1, "", "Failed to load FFmpeg", "none")>>
  /\ UNCHANGED <<sab, uiVars, pipelineVars, clientVars, calls, updates, inbox, loadListener, resultListeners,
                 loadsPosted, crashes>>

\* self.onmessage, case 'execute': the command throws at once when the engine
\* of this worker is not loaded; otherwise it reports and ends with complete
\* (carrying its output) or with the catch-all error
WorkerExec(ok) ==
  /\ worker # 0
  /\ inbox # <<>>
  /\ Head(inbox).type = "execute"
  /\ LET c == Head(inbox).call
     IN /\ inbox' = Tail(inbox)
        /\ IF engine # "loaded"
           THEN /\ ok
                /\ outbox' = Append(outbox, Ev("error", c, -1, "", "FFmpeg not loaded", "none"))
           ELSE \E reports \in Reports(c, calls[c].kind) :
                  outbox' = outbox \o reports \o
                    <<IF ok THEN Ev("complete", c, -1, "", "", OutOf(calls[c].kind))
                      ELSE Ev("error", c, -1, "", "ffmpeg failed", "none")>>
  /\ UNCHANGED <<sab, uiVars, pipelineVars, clientVars, calls, updates, engine, loadListener, resultListeners,
                 loadsPosted, crashes>>

\* ---- specification --------------------------------------------------------

Next ==
  \/ \E c \in Calls, kind \in Kinds, cb \in BOOLEAN, nclips \in {1, 2} : Invoke(c, kind, cb, nclips)
  \/ \E c \in Calls, ok \in BOOLEAN : ReadDone(c, ok)
  \/ Deliver
  \/ Terminate
  \/ TimerFire
  \/ handleError
  \/ WorkerStartLoad
  \/ \E ok \in BOOLEAN : WorkerFinishLoad(ok)
  \/ \E ok \in BOOLEAN : WorkerExec(ok)

Spec == Init /\ [][Next]_vars

\* ---- one command through the worker ----------------------------------------
\* The worker awaits the engine between its steps; an action is one stretch of
\* the execute function between two awaits of ffmpeg.exec, or one event the
\* engine emits while exec runs.

Qualities == {"low", "medium", "high"}
Bytes == {0, 255}

\* the contents an output file may have
Outputs == UNION {[1..n -> Bytes] : n \in 0..MaxBytes}

\* the commands a caller may submit
Commands ==
  {Cmd("trim", m, "", "", 0) : m \in {"fast", "accurate"}}
    \cup {Cmd("frames", "", "", "", 0)}
    \cup {Cmd("convert", "", q, "webm", 0) : q \in Qualities \cup {"best"}}
    \cup {Cmd("merge", "", "", f, n) : f \in {"mp4", "webm"}, n \in 2..MaxClips}

\* WorkerResponse of the command
Msg(type, progress, step, message) ==
  [type |-> type, progress |-> progress, step |-> step, message |-> message]

\* Math.round(num / den), num >= 0 and den > 0
MathRound(num, den) == (2 * num + den) \div (2 * den)

\* String(n).padStart(3, '0')
padStart(n) ==
  IF n < 10 THEN "00" \o toString(n)
  ELSE IF n < 100 THEN "0" \o toString(n)
  ELSE toString(n)

\* ConvertControls: the table behind the quality info
QUALITY_LABELS(q) ==
  CASE q = "low" -> [label |-> "Low", crf |-> 40]
    [] q = "medium" -> [label |-> "Medium", crf |-> 32]
    [] q = "high" -> [label |-> "High", crf |-> 24]

sliderToQuality(value) ==
  IF value <= 25 THEN "low" ELSE IF value <= 75 THEN "medium" ELSE "high"

\* the positions of the slider (min 0, max 100, step 50)
SliderValues == {0, 50, 100}

\* crfMap whose entry for high is not the one the controls show
crfMap_OtherHigh(q) ==
  CASE q = "low" -> 40
    [] q = "medium" -> 32
    [] q = "high" -> 23
    [] OTHER -> 0

\* executeConvert: crfMap[settings.quality], 0 standing for undefined
crfMap(q) ==
  CASE q = "low" -> 40
    [] q = "medium" -> 32
    [] q = "high" -> 24
    [] OTHER -> 0

\* crfMap[settings.quality] || 32
Crf(q) == IF crfMap(q) = 0 THEN 32 ELSE crfMap(q)

trimArgs(mode) ==
  IF mode = "fast"
  THEN <<"-ss", "start", "-to", "end", "-i", "input.mp4", "-c", "copy", "output.mp4">>
  ELSE <<"-ss", "start", "-to", "end", "-i", "input.mp4", "-c:v", "libx264", "-c:a", "aac",
         "-preset", "fast", "output.mp4">>

framesArgs == <<"-i", "input.mp4", "-vf", "fps", "frames/out_%03d.jpg">>

convertArgs(q) ==
  <<"-i", "input.mp4", "-c:v", "libvpx-vp9", "-b:v", "0", "-crf", toString(Crf(q)),
    "-c:a", "libopus", "-deadline", "realtime", "-cpu-used", "4", "output.webm">>

inputName(k) == "input_" \o toString(k) \o ".mp4"
normalizedName(k) == "clip_" \o padStart(k + 1) \o ".mp4"

normalizeArgs(k) ==
  <<"-ss", "start", "-to", "end", "-i", inputName(k), "-c:v", "libx264",
    "-preset", "veryfast", "-crf", "23", "-c:a", "aac", "-movflags", "+faststart",
    normalizedName(k)>>

outputName(format) == IF format = "webm" THEN "merged.webm" ELSE "merged.mp4"

\* executeMerge: mergeArgs of the first attempt
firstMergeArgs(format) ==
  IF format = "mp4"
  THEN <<"-f", "concat", "-safe", "0", "-i", "concat_list.txt", "-c", "copy",
         outputName(format)>>
  ELSE <<"-f", "concat", "-safe", "0", "-i", "concat_list.txt", "-c:v", "libvpx-vp9",
         "-b:v", "0", "-crf", "32", "-c:a", "libopus", outputName(format)>>

\* executeMerge: mergeArgs in the catch of the first attempt
fallbackMergeArgs(format, args) ==
  IF format = "mp4"
  THEN <<"-f", "concat", "-safe", "0", "-i", "concat_list.txt", "-c:v", "libx264",
         "-preset", "veryfast", "-crf", "23", "-c:a", "aac", outputName(format)>>
  ELSE args

\* the frames executeFrames may return: out_001.jpg, out_002.jpg, ...
FrameLists ==
  UNION {{[k \in 1..n |-> [name |-> "out_" \o padStart(k) \o ".jpg", data |-> d[k]]] :
            d \in [1..n -> Outputs]} : n \in 0..MaxFrames}

\* ConvertControls.handleSliderChange
handleSliderChange(value) ==
  /\ at = "idle"
  /\ quality' = sliderToQuality(value)
  /\ UNCHANGED <<uiVars, bridgeVars, shownCrf, command, at, clipIndex, normalizedFiles, mergeArgs,
                 execCalls, posted, engineEvents, payload, exportResult, vfs>>

\* ConvertControls.handleConvert: onConvert({quality, format: 'webm'}), which
\* Index.handleConvert hands to ffmpegClient.convert
handleConvert ==
  /\ at = "idle"
  /\ sab
  /\ command' = Cmd("convert", "", quality, "webm", 0)
  /\ shownCrf' = toString(QUALITY_LABELS(quality).crf)
  /\ at' = "posted"
  /\ UNCHANGED <<uiVars, bridgeVars, quality, clipIndex, normalizedFiles, mergeArgs, execCalls,
                 posted, engineEvents, payload, exportResult, vfs>>

\* a caller of the client submits a command (the engine loads only where
\* SharedArrayBuffer exists)
Submit(cmd) ==
  /\ at = "idle"
  /\ sab
  /\ command' = cmd
  /\ at' = "posted"
  /\ UNCHANGED <<uiVars, bridgeVars, quality, shownCrf, clipIndex, normalizedFiles, mergeArgs,
                 execCalls, posted, engineEvents, payload, exportResult, vfs>>

\* the names ffmpeg.exec writes for the command before it returns or throws
Written(cmd) ==
  CASE cmd.type = "trim" -> {"output.mp4"}
    [] cmd.type = "convert" -> {"output.webm"}
    [] cmd.type = "frames" -> {"frames/out_001.jpg"}
    [] cmd.type = "merge" -> {outputName(cmd.format)}

\* executeTrim, executeFrames, executeConvert up to `await ffmpeg.exec(args)`:
\* writeInputFile, and createDir('frames') for frames
ExecuteStart ==
  /\ at = "posted"
  /\ command.type \in {"trim", "frames", "convert"}
  /\ execCalls' = <<CASE command.type = "trim" -> trimArgs(command.mode)
                      [] command.type = "frames" -> framesArgs
                      [] command.type = "convert" -> convertArgs(command.quality)>>
  /\ at' = "exec"
  /\ vfs' = vfs \cup {"input.mp4"} \cup (IF command.type = "frames" THEN {"frames"} ELSE {})
  /\ UNCHANGED <<uiVars, bridgeVars, quality, shownCrf, command, clipIndex, normalizedFiles,
                 mergeArgs, posted, engineEvents, payload, exportResult>>

\* progressHandler: the engine reports progress (ratio is in thousandths)
progressHandler(ratio) ==
  /\ at \in {"exec", "normalizing", "concat", "fallback"}
  /\ engineEvents < MaxEngineEvents
  /\ engineEvents' = engineEvents + 1
  /\ posted' = Append(posted, Msg("progress", MathRound(ratio * 100, 1000), "", ""))
  /\ UNCHANGED <<uiVars, bridgeVars, quality, shownCrf, command, at, clipIndex, normalizedFiles,
                 mergeArgs, execCalls, payload, exportResult, vfs>>

\* the progress ratios the engine may report, in thousandths
EngineRatios == {495, 1000}

\* self.onmessage sends complete with the value the command returned
Complete(sent, pl) ==
  /\ payload' = pl
  /\ posted' = Append(sent, Msg("complete", -1, "", ""))
  /\ at' = "complete"

\* the catch of self.onmessage sends error
Fail(sent) ==
  /\ posted' = Append(sent, Msg("error", -1, "", "ffmpeg failed"))
  /\ at' = "failed"
  /\ UNCHANGED payload

\* exec of trim, frames or convert returns or throws; the output is read and
\* the cleanup that follows the read runs (there is none when exec throws)
ExecuteDone(ok) ==
  /\ at = "exec"
  /\ IF ~ok THEN
       /\ Fail(posted)
       /\ \E left \in SUBSET Written(command) : vfs' = vfs \cup left
     ELSE
       /\ IF command.type = "frames"
          THEN \E frames \in FrameLists : Complete(posted, Payload("frames", <<>>, frames))
          ELSE \E data \in Outputs : Complete(posted, Payload("data", data, <<>>))
       /\ vfs' = (vfs \cup Written(command)) \ (Written(command) \cup {"frames", "input.mp4"})
  /\ UNCHANGED <<uiVars, bridgeVars, quality, shownCrf, command, clipIndex, normalizedFiles,
                 mergeArgs, execCalls, engineEvents, exportResult>>

\* executeMerge, step 1, for clip i up to `await ffmpeg.exec(normalizeArgs)`
MergeClipStart ==
  /\ command.type = "merge"
  /\ command.clips >= 2
  /\ at \in {"posted", "loop"}
  /\ clipIndex < command.clips
  /\ LET step == "Normalizing clip " \o toString(clipIndex + 1) \o "/" \o toString(command.clips)
     IN posted' = posted \o
          <<Msg("log", -1, "", step \o "..."),
            Msg("progress", MathRound(clipIndex * 50, command.clips), step, step)>>
  /\ execCalls' = Append(execCalls, normalizeArgs(clipIndex))
  /\ at' = "normalizing"
  /\ vfs' = vfs \cup {inputName(clipIndex)}
  /\ UNCHANGED <<uiVars, bridgeVars, quality, shownCrf, command, clipIndex, normalizedFiles,
                 mergeArgs, engineEvents, payload, exportResult>>

\* exec of normalizeArgs returns (the clip is pushed, its input deleted, i++)
\* or throws (the catch deletes the files of normalizedFiles)
MergeClipDone(ok) ==
  /\ at = "normalizing"
  /\ IF ok THEN
       /\ normalizedFiles' = Append(normalizedFiles, normalizedName(clipIndex))
       /\ clipIndex' = clipIndex + 1
       /\ at' = "loop"
       /\ vfs' = (vfs \cup {normalizedName(clipIndex)}) \ {inputName(clipIndex)}
       /\ UNCHANGED <<posted, payload>>
     ELSE
       /\ Fail(posted)
       /\ \E left \in SUBSET {normalizedName(clipIndex)} :
            vfs' = (vfs \cup left) \ SeqToSet(normalizedFiles)
       /\ UNCHANGED <<normalizedFiles, clipIndex>>
  /\ UNCHANGED <<uiVars, bridgeVars, quality, shownCrf, command, mergeArgs, execCalls,
                 engineEvents, exportResult>>

\* executeMerge, steps 2 and 3, up to the first `await ffmpeg.exec(mergeArgs)`
MergeConcatStart ==
  /\ command.type = "merge"
  /\ at = "loop"
  /\ clipIndex = command.clips
  /\ posted' = posted \o
       <<Msg("log", -1, "", "Creating concat list..."),
         Msg("progress", 50, "Preparing merge...", "Preparing merge..."),
         Msg("log", -1, "", "Merging clips..."),
         Msg("progress", 60, "Merging clips...", "Merging clips...")>>
  /\ mergeArgs' = firstMergeArgs(command.format)
  /\ execCalls' = Append(execCalls, mergeArgs')
  /\ at' = "concat"
  /\ vfs' = vfs \cup {"concat_list.txt"}
  /\ UNCHANGED <<uiVars, bridgeVars, quality, shownCrf, command, clipIndex, normalizedFiles,
                 engineEvents, payload, exportResult>>

\* executeMerge after a successful exec(mergeArgs): Finalizing, readFile,
\* cleanup, return
MergeFinish ==
  /\ \E data \in Outputs :
       Complete(Append(posted, Msg("progress", 95, "Finalizing...", "Finalizing...")),
                Payload("data", data, <<>>))
  /\ vfs' = vfs \ (SeqToSet(normalizedFiles) \cup {"concat_list.txt"} \cup Written(command))

\* the first exec(mergeArgs) returns, or throws and the catch runs the second
MergeConcatDone(ok) ==
  /\ at = "concat"
  /\ IF ok THEN
       /\ MergeFinish
       /\ UNCHANGED <<mergeArgs, execCalls>>
     ELSE
       /\ posted' = Append(posted, Msg("log", -1, "", "Copy failed, re-encoding..."))
       /\ mergeArgs' = fallbackMergeArgs(command.format, mergeArgs)
       /\ execCalls' = Append(execCalls, mergeArgs')
       /\ at' = "fallback"
       /\ \E left \in SUBSET Written(command) : vfs' = vfs \cup left
       /\ UNCHANGED payload
  /\ UNCHANGED <<uiVars, bridgeVars, quality, shownCrf, command, clipIndex, normalizedFiles,
                 engineEvents, exportResult>>

\* the second exec(mergeArgs) returns, or throws and the outer catch deletes
\* the files of normalizedFiles
MergeFallbackDone(ok) ==
  /\ at = "fallback"
  /\ IF ok THEN MergeFinish
     ELSE
       /\ Fail(posted)
       /\ \E left \in SUBSET Written(command) :
            vfs' = (vfs \cup left) \ SeqToSet(normalizedFiles)
  /\ UNCHANGED <<uiVars, bridgeVars, quality, shownCrf, command, clipIndex, normalizedFiles,
                 mergeArgs, execCalls, engineEvents, exportResult>>

\* execute messages of a merge with fewer than 2 clips (the client posts none:
\* they stand for a message posted to the worker by other means)
FewClipMerges == {Cmd("merge", "", "", f, n) : f \in {"mp4", "webm"}, n \in 0..1}

\* self.onmessage: an execute message with a merge command arrives
onmessage(cmd) ==
  /\ at = "idle"
  /\ command' = cmd
  /\ at' = "posted"
  /\ UNCHANGED <<uiVars, bridgeVars, quality, shownCrf, clipIndex, normalizedFiles, mergeArgs,
                 execCalls, posted, engineEvents, payload, exportResult, vfs>>

\* executeMerge with clips.length < 2 throws before its try; the catch of
\* self.onmessage sends error
MergeReject ==
  /\ command.type = "merge"
  /\ at = "posted"
  /\ command.clips < 2
  /\ posted' = Append(posted, Msg("error", -1, "", "Need at least 2 clips to merge"))
  /\ at' = "failed"
  /\ UNCHANGED <<uiVars, bridgeVars, quality, shownCrf, command, clipIndex, normalizedFiles,
                 mergeArgs, execCalls, engineEvents, payload, exportResult, vfs>>

\* merge.handleResult that takes the media type of an mp4 whatever the format
mimeType_AlwaysMp4(format) == "video/mp4"

\* merge.handleResult: mimeType
mimeType(format) == IF format = "webm" THEN "video/webm" ELSE "video/mp4"

\* merge.handleResult: extension
extension(format) == IF format = "webm" THEN "webm" ELSE "mp4"

RECURSIVE totalSize(_)
\* frames.reduce((acc, f) => acc + f.data.byteLength, 0)
totalSize(frames) ==
  IF frames = <<>> THEN 0 ELSE Len(Head(frames).data) + totalSize(Tail(frames))

\* the ExportResult a handleResult resolves with (id and createdAt left out)
Export(type, filename, size, data, objectUrl, frames) ==
  [type |-> type, filename |-> filename, size |-> size, data |-> data,
   objectUrl |-> objectUrl, frames |-> frames]

\* handleResult of the command, complete branch
Materialize(cmd, pl, now) ==
  CASE cmd.type = "trim" ->
         Export("trim", "trimmed_" \o toString(now) \o ".mp4", Len(pl.data), pl.data,
                ObjectUrl("video/mp4", pl.data), <<>>)
    [] cmd.type = "frames" ->
         Export("frames", "frames_" \o toString(now) \o ".zip", totalSize(pl.frames), <<>>,
                NoUrl,
                [k \in 1..Len(pl.frames) |->
                   [name |-> pl.frames[k].name, data |-> pl.frames[k].data,
                    objectUrl |-> ObjectUrl("image/jpeg", pl.frames[k].data)]])
    [] cmd.type = "convert" ->
         Export("convert", "converted_" \o toString(now) \o ".webm", Len(pl.data), pl.data,
                ObjectUrl("video/webm", pl.data), <<>>)
    [] cmd.type = "merge" ->
         Export("merge", "merged_" \o toString(now) \o "." \o extension(cmd.format),
                Len(pl.data), pl.data, ObjectUrl(mimeType(cmd.format), pl.data), <<>>)

\* the complete message is dispatched: handleResult resolves the promise
ResolveResult(now) ==
  /\ at = "complete"
  /\ exportResult' = Materialize(command, payload, now)
  /\ at' = "resolved"
  /\ UNCHANGED <<uiVars, bridgeVars, quality, shownCrf, command, clipIndex, normalizedFiles,
                 mergeArgs, execCalls, posted, engineEvents, payload, vfs>>

PipelineNext ==
  \/ \E value \in SliderValues : handleSliderChange(value)
  \/ handleConvert
  \/ \E cmd \in Commands : Submit(cmd)
  \/ ExecuteStart
  \/ \E ratio \in EngineRatios : progressHandler(ratio)
  \/ \E ok \in BOOLEAN : ExecuteDone(ok)
  \/ MergeClipStart
  \/ \E ok \in BOOLEAN : MergeClipDone(ok)
  \/ MergeConcatStart
  \/ \E ok \in BOOLEAN : MergeConcatDone(ok)
  \/ \E ok \in BOOLEAN : MergeFallbackDone(ok)
  \/ \E now \in 1..MaxNow : ResolveResult(now)

PipelineSpec == Init /\ [][PipelineNext]_vars

\* ---- the page ----------------------------------------------------------------
\* project.clips starts empty and grows only through handlers the page offers in
\* timeline mode, that is when project.clips is not empty (Index.tsx 55-58, 68,
\* 122-125, 342-353): the page stays in single video mode, and its commands are
\* trim, extractFrames and convert on `video`.

\* revokeObjectURLDeferred default delay
delayMs == 2000

\* revokeObjectURLDeferred(url, delayMs) whose timer has no delay
revokeObjectURLDeferred_NoDelay(armed, url, ms) ==
  armed \cup {[url |-> url, delay |-> 0, elapsed |-> 0]}

\* revokeObjectURLDeferred(url, delayMs): the timers armed after it
revokeObjectURLDeferred(armed, url, ms) ==
  armed \cup {[url |-> url, delay |-> ms, elapsed |-> 0]}

\* revokeObjectURLDeferred for each URL of a set
RECURSIVE RevokeAllDeferred(_, _)
RevokeAllDeferred(armed, urls) ==
  IF urls = {} THEN armed
  ELSE LET u == CHOOSE x \in urls : TRUE
       IN RevokeAllDeferred(revokeObjectURLDeferred(armed, u, delayMs), urls \ {u})

\* the action buttons are disabled
isProcessing == processingState \in {"processing", "loading"}

\* the first rendering of the page on a fresh client
PageInit ==
  /\ FreshClient
  /\ PipelineIdle
  /\ mounted = TRUE
  /\ PageIdle

\* Uploader.processFile up to `video.src = objectUrl` (the uploader is rendered
\* while there is no video; a file can be dropped whatever the status)
processFile ==
  /\ mounted
  /\ video = 0
  /\ filesChosen < MaxFiles
  /\ filesChosen' = filesChosen + 1
  /\ urlCount' = urlCount + 1
  /\ liveUrls' = liveUrls \cup {urlCount + 1}
  /\ probing' = probing \cup {urlCount + 1}
  /\ UNCHANGED <<bridgeVars, pipelineVars, mounted, processingState, video, exports,
                 previewResult, revokedUrls, revokeTimers>>

\* video.onloadedmetadata of the uploader: onFileSelect, that is handleFileSelect
\* in single video mode
handleFileSelect ==
  \E u \in probing :
    /\ probing' = probing \ {u}
    /\ revokeTimers' = IF video # 0 THEN revokeObjectURLDeferred(revokeTimers, video, delayMs)
                       ELSE revokeTimers
    /\ video' = u
    /\ processingState' = "idle"
    /\ UNCHANGED <<bridgeVars, pipelineVars, mounted, exports, previewResult, urlCount,
                   liveUrls, revokedUrls, filesChosen>>

\* video.onerror of the uploader: the URL will not be used and is released
onerror ==
  \E u \in probing :
    /\ probing' = probing \ {u}
    /\ liveUrls' = liveUrls \ {u}
    /\ revokedUrls' = revokedUrls \cup {u}
    /\ UNCHANGED <<bridgeVars, pipelineVars, mounted, processingState, video, exports,
                   previewResult, urlCount, revokeTimers, filesChosen>>

\* handleClearVideo (VideoInfo is rendered, and enabled, whenever there is a video)
handleClearVideo ==
  /\ mounted
  /\ video # 0
  /\ revokeTimers' = revokeObjectURLDeferred(revokeTimers, video, delayMs)
  /\ video' = 0
  /\ processingState' = "idle"
  /\ UNCHANGED <<bridgeVars, pipelineVars, mounted, exports, previewResult, urlCount,
                 liveUrls, revokedUrls, probing, filesChosen>>

\* handleTrim, handleExtractFrames, handleConvert: the button of the action is
\* enabled and clicked; the handler calls the client and awaits its promise
handleAction(c, kind) ==
  /\ mounted
  /\ video # 0
  /\ ~isProcessing
  /\ kind \in {"trim", "frames", "convert"}
  /\ Invoke(c, kind, TRUE, 2)

\* handleClearExport(id), id that of the i-th export of the list
handleClearExport ==
  \E i \in 1..Len(exports) :
    /\ mounted
    /\ revokeTimers' = RevokeAllDeferred(revokeTimers, UrlsOf(exports[i]))
    /\ exports' = SubSeq(exports, 1, i - 1) \o SubSeq(exports, i + 1, Len(exports))
    /\ UNCHANGED <<bridgeVars, pipelineVars, mounted, processingState, video, previewResult,
                   urlCount, liveUrls, revokedUrls, probing, filesChosen>>

\* handlePreview(result): the Preview button of a listed video export
handlePreview ==
  \E i \in 1..Len(exports) :
    /\ mounted
    /\ previewResult = NoPreview
    /\ exports[i].type # "frames"
    /\ exports[i].objectUrl # 0
    /\ previewResult' = exports[i]
    /\ UNCHANGED <<bridgeVars, pipelineVars, mounted, processingState, video, exports,
                   urlCount, liveUrls, revokedUrls, probing, revokeTimers, filesChosen>>

\* Dialog.onOpenChange(false): the preview is closed
onOpenChange ==
  /\ previewResult # NoPreview
  /\ revokeTimers' = IF previewResult.objectUrl # 0
                     THEN revokeObjectURLDeferred(revokeTimers, previewResult.objectUrl, delayMs)
                     ELSE revokeTimers
  /\ previewResult' = NoPreview
  /\ UNCHANGED <<bridgeVars, pipelineVars, mounted, processingState, video, exports,
                 urlCount, liveUrls, revokedUrls, probing, filesChosen>>

\* a timer of revokeObjectURLDeferred expires: URL.revokeObjectURL(url)
RevokeTimerFire ==
  \E t \in revokeTimers :
    /\ t.elapsed >= t.delay
    /\ revokeTimers' = revokeTimers \ {t}
    /\ liveUrls' = liveUrls \ {t.url}
    /\ revokedUrls' = revokedUrls \cup {t.url}
    /\ UNCHANGED <<bridgeVars, pipelineVars, mounted, processingState, video, exports,
                   previewResult, urlCount, probing, filesChosen>>

\* a second passes while a timer is running
Tick ==
  /\ \E t \in revokeTimers : t.elapsed < t.delay
  /\ revokeTimers' = {[t EXCEPT !.elapsed = IF @ < t.delay THEN @ + 1000 ELSE @] :
                        t \in revokeTimers}
  /\ UNCHANGED <<bridgeVars, pipelineVars, mounted, processingState, video, exports,
                 previewResult, urlCount, liveUrls, revokedUrls, probing, filesChosen>>

\* the page and its commands, with everything that can happen to a command
PageNext ==
  \/ processFile
  \/ handleFileSelect
  \/ onerror
  \/ handleClearVideo
  \/ \E c \in Calls, kind \in CommandKinds : handleAction(c, kind)
  \/ \E c \in Calls, ok \in BOOLEAN : ReadDone(c, ok)
  \/ Deliver
  \/ TimerFire
  \/ handleError
  \/ WorkerStartLoad
  \/ \E ok \in BOOLEAN : WorkerFinishLoad(ok)
  \/ \E ok \in BOOLEAN : WorkerExec(ok)

PageSpec == PageInit /\ [][PageNext]_vars

\* the page and the object URLs it holds: the results are listed, previewed
\* and removed and the timers of revokeObjectURLDeferred run while the commands
\* are answered by the worker (a command that times out or whose worker
\* crashes lists no result)
MediaNext ==
  \/ processFile
  \/ handleFileSelect
  \/ onerror
  \/ handleClearVideo
  \/ \E c \in Calls, kind \in CommandKinds : handleAction(c, kind)
  \/ handleClearExport
  \/ handlePreview
  \/ onOpenChange
  \/ RevokeTimerFire
  \/ Tick
  \/ \E c \in Calls, ok \in BOOLEAN : ReadDone(c, ok)
  \/ Deliver
  \/ WorkerStartLoad
  \/ \E ok \in BOOLEAN : WorkerFinishLoad(ok)
  \/ \E ok \in BOOLEAN : WorkerExec(ok)

MediaSpec == PageInit /\ [][MediaNext]_vars

\* ---- handleMessage on the progress events of the protocol ------------------
\* A WorkerResponse of type progress may carry a progress value, a step and a
\* message, each optional (types.ts); handleMessage is applied to every such
\* event while a command is waiting for its result.

\* the progress events handleMessage may be handed (-1: no progress value)
ProgressEvents ==
  {Ev("progress", 1, p, st, m, "none") :
     p \in {-1, 0, 7, 50, 99, 100},
     st \in {"", "Merging clips..."},
     m \in {"", "frame= 10"}}

\* a command is executing on a loaded engine, some log lines accumulated, and
\* the events the worker has sent are one of boxes
Executing(boxes) ==
  /\ sab = TRUE
  /\ worker = 1
  /\ created = 1
  /\ isLoaded = TRUE
  /\ loadPromise = [state |-> "resolved", error |-> ""]
  /\ loadWaiters = <<>>
  /\ currentCallback = 1
  /\ logs \in {<<>>, <<"ffmpeg output">>, <<"ffmpeg output", "ffmpeg output">>}
  /\ timeoutId = 1
  /\ timers = {1}
  /\ calls = [c \in Calls |->
               IF c = 1
               THEN [IdleCall EXCEPT !.kind = "merge", !.cb = TRUE, !.pc = "executing",
                                     !.promise = "pending", !.lw = 1, !.clips = 2]
               ELSE IdleCall]
  /\ updates = [c \in Calls |-> <<>>]
  /\ engine = "loaded"
  /\ inbox = <<>>
  /\ outbox \in boxes
  /\ loadListener = FALSE
  /\ resultListeners = <<1>>
  /\ loadsPosted = 1
  /\ crashes = 0
  /\ PipelineIdle
  /\ mounted = FALSE
  /\ PageIdle

\* the worker has sent one progress event
HandleMessageInit == Executing({<<e>> : e \in ProgressEvents})

HandleMessageSpec == HandleMessageInit /\ [][Deliver]_vars

\* the log events the worker may send for the command
LogEvents == {LogEv(1, m) : m \in {"", "ffmpeg output"}}

\* two events of the command are waiting to be dispatched
EventPairs == {<<e, f>> : e, f \in ProgressEvents \cup LogEvents}

HandleEventsInit == Executing(EventPairs)

HandleEventsSpec == HandleEventsInit /\ [][Deliver]_vars

\* ---- merge and the number of clips ------------------------------------------
\* Callers invoke merge on a client whose worker loads and executes; execute
\* messages of a merge with too few clips reach the worker as well.
MergeGuardNext ==
  \/ \E c \in Calls, nclips \in 0..2 : Invoke(c, "merge", TRUE, nclips)
  \/ \E c \in Calls, ok \in BOOLEAN : ReadDone(c, ok)
  \/ Deliver
  \/ WorkerStartLoad
  \/ \E ok \in BOOLEAN : WorkerFinishLoad(ok)
  \/ \E ok \in BOOLEAN : WorkerExec(ok)
  \/ \E cmd \in FewClipMerges : onmessage(cmd)
  \/ MergeReject

MergeGuardSpec == Init /\ [][MergeGuardNext]_vars

\* ---- properties -----------------------------------------------------------

\* the callback of call c has received the timeout error
TimedOut(c) == \E i \in 1..Len(updates[c]) : updates[c][i].message = "timeout"

\* the callback of call c has received a status update with status error
GotError(c) == \E i \in 1..Len(updates[c]) : updates[c][i].status = "error"

\* call c is started by this step
Starts(c) == calls[c].pc = "idle" /\ calls'[c].pc # "idle"

\* this step dispatches a message event of the given types
Dispatches(types) == Deliver /\ Head(outbox).type \in types

\* C1: when the timer of a submitted command expires before the worker sent its
\* complete or error event, the promise of that command is rejected with the
\* timeout error.
C1_TimeoutRejects ==
  [][\A c \in Calls :
       (TimerFire /\ timeoutId = c /\ calls[c].pc = "executing")
         => (calls'[c].promise = "rejected" /\ calls'[c].error = "timeout")]_vars

\* the live worker was installed by an expiry of the timer
Recovered == created > 1 /\ worker = created

\* a call that timed out after it had posted its execute message
TimedOutExecuting(c) ==
  /\ TimedOut(c)
  /\ calls[c].pc = "executing"
  /\ calls[c].lw < worker

\* C2: the expiry of the timer delivers the timeout error to the callback of the
\* timed-out command and replaces the worker by a fresh one with isLoaded false
\* and no memoized load promise; the next command posts a load to the fresh
\* worker, goes on when that worker answers loaded, and resolves with its own
\* output when that worker answers complete.
C2_TimeoutRecovery ==
  [][/\ TimerFire =>
          /\ updates'[timeoutId] = Append(updates[timeoutId], Upd("error", 0, "timeout", logs))
          /\ worker' = created + 1
          /\ worker' # worker
          /\ ~isLoaded'
          /\ loadPromise' = NoPromise
          /\ engine' = "unloaded"
          /\ inbox' = <<>>
          /\ loadsPosted' = 0
     /\ \A c \in Calls :
          /\ ( /\ Recovered
               /\ Starts(c)
               /\ calls'[c].kind \in CommandKinds
               /\ calls'[c].error # "fewclips"
               /\ ~isLoaded
               /\ loadPromise = NoPromise )
             => ( /\ inbox' = Append(inbox, LoadMsg)
                  /\ calls'[c].pc = "awaitLoad"
                  /\ calls'[c].lw = worker )
          /\ ( /\ Recovered
               /\ Dispatches({"loaded"})
               /\ calls[c].kind \in CommandKinds
               /\ calls[c].pc = "awaitLoad"
               /\ calls[c].lw = worker )
             => calls'[c].pc = "reading"
          /\ ( /\ Recovered
               /\ Dispatches({"complete"})
               /\ Head(outbox).call = c
               /\ calls[c].pc = "executing"
               /\ calls[c].lw = worker )
             => (calls'[c].promise = "resolved" /\ calls'[c].result = c)]_vars

\* a command timed out after it was submitted, and a later command ran on the
\* fresh worker and resolved
C2_Witness ==
  \E c, d \in Calls :
    /\ TimedOutExecuting(c)
    /\ Recovered
    /\ calls[d].kind \in CommandKinds
    /\ calls[d].lw = worker
    /\ calls[d].promise = "resolved"

\* what a caller of load() has seen of the load it awaits
AwaitOutcome(call) ==
  IF call.promise = "rejected" THEN "rejected"
  ELSE IF call.pc = "awaitLoad" THEN "pending"
  ELSE "resolved"

\* C3: however many callers invoke load while the engine of the worker is not
\* loaded and its load has not finished, one load message is posted to that
\* worker, and the callers settle alike: all resolve when the loaded event is
\* dispatched, or all reject when the error event is.
C3_SingleLoad ==
  [][/\ loadsPosted' <= 1
     /\ loadWaiters' # <<>> => (loadsPosted' = 1 /\ loadPromise'.state = "pending")
     /\ \A c, d \in SeqToSet(loadWaiters) :
          AwaitOutcome(calls'[c]) = AwaitOutcome(calls'[d])
     /\ \A c \in SeqToSet(loadWaiters) :
          /\ Dispatches({"loaded"}) => AwaitOutcome(calls'[c]) = "resolved"
          /\ Dispatches({"error"}) => AwaitOutcome(calls'[c]) = "rejected"
          /\ ~Dispatches({"loaded", "error"}) => AwaitOutcome(calls'[c]) = "pending"]_vars

\* two load() calls shared one load message and both resolved
C3_Witness ==
  \E c, d \in Calls :
    /\ c # d
    /\ calls[c].kind = "load" /\ calls[d].kind = "load"
    /\ calls[c].lw = worker /\ calls[d].lw = worker
    /\ calls[c].promise = "resolved" /\ calls[d].promise = "resolved"
    /\ loadsPosted = 1

\* C4: after the worker answered a load with an error event, the next call of
\* load or of a command posts a new load message instead of returning the
\* earlier failure.
C4_RetryAfterLoadFailure ==
  [][\A c \in Calls :
       ( /\ Starts(c)
         /\ calls'[c].error # "fewclips"
         /\ ~isLoaded
         /\ loadPromise.state = "rejected"
         /\ loadPromise.error = "Failed to load FFmpeg" )
       => (calls'[c].pc = "awaitLoad" /\ loadsPosted' = loadsPosted + 1)]_vars

\* C5: a command whose terminal event is dispatched, or whose timer expires,
\* while its promise is pending, is settled by that step (and a promise never
\* settles twice).
C5_SettlesOnce ==
  [][\A c \in Calls :
       /\ ( /\ calls[c].pc = "executing"
            /\ \/ TimerFire /\ timeoutId = c
               \/ Dispatches({"complete", "error"}) /\ Head(outbox).call = c )
          => calls'[c].promise \in {"resolved", "rejected"}
       /\ calls[c].promise \in {"resolved", "rejected"} => calls'[c] = calls[c]]_vars

\* C6: terminate() rejects every promise that is waiting for the worker (for
\* its load or for the result of a command) before it tears the worker down.
C6_TerminateFailsPending ==
  [][Terminate =>
       \A c \in Calls :
         calls[c].pc \in {"awaitLoad", "executing"} => calls'[c].promise = "rejected"]_vars

\* C7: after terminate() the next call creates a worker and posts a load to it.
C7_LazyWorker ==
  [][\A c \in Calls :
       (Starts(c) /\ worker = 0 /\ sab /\ calls'[c].error # "fewclips")
       => (worker' # 0 /\ calls'[c].pc = "awaitLoad" /\ inbox' = <<LoadMsg>>)]_vars

\* the failure kinds of the error taxonomy, as the error of a rejected call
TaxonomyErrors ==
  {"capability", "Failed to load FFmpeg", "FFmpeg not loaded", "ffmpeg failed",
   "timeout", "Worker error"}

\* C8: a call is rejected for a failure of the taxonomy exactly when its own
\* callback has received an error status update.
C8_BothChannels ==
  \A c \in Calls :
    calls[c].cb =>
      /\ (calls[c].promise = "rejected" /\ calls[c].error \in TaxonomyErrors) => GotError(c)
      /\ GotError(c) => calls[c].promise = "rejected"

\* C9: an execute message is only ever posted to a worker whose engine is
\* loaded.
C9_ExecuteGated ==
  \A i \in 1..Len(inbox) : inbox[i].type = "execute" => engine = "loaded"

\* C10: without SharedArrayBuffer, and the engine not loaded, a call of load
\* (also the one a command makes) is rejected with the capability error in the
\* same step, posts nothing, leaves isLoaded and the load promise as they
\* were, and hands its callback, when it has one, exactly one error update.
C10_CapabilityFailsFast ==
  [][\A c \in Calls :
       (Starts(c) /\ ~sab /\ ~isLoaded /\ calls'[c].error # "fewclips")
       => /\ calls'[c].promise = "rejected"
          /\ calls'[c].error = "capability"
          /\ inbox' = inbox
          /\ loadsPosted' = loadsPosted
          /\ isLoaded' = isLoaded
          /\ loadPromise' = loadPromise
          /\ loadWaiters' = loadWaiters
          /\ updates' = [updates EXCEPT ![c] =
                           IF calls'[c].cb
                           THEN <<Upd("error", 0, "capability", <<>>)>>
                           ELSE <<>>]]_vars

\* load was called with a callback where SharedArrayBuffer is missing
C10_Witness ==
  \E c \in Calls :
    /\ ~sab
    /\ calls[c].cb
    /\ calls[c].error = "capability"
    /\ Len(updates[c]) = 1

\* C11: a call of load made while isLoaded is true resolves in the same step
\* and is a no-op: nothing is posted, no callback is invoked, no field of the
\* client and nothing on the worker changes; the load a command makes first is
\* the same no-op, after which the command goes on to read its file.
C11_LoadedLoadIsNoOp ==
  [][\A c \in Calls :
       (Starts(c) /\ isLoaded /\ calls'[c].error # "fewclips")
       => /\ updates' = updates
          /\ UNCHANGED workerVars
          /\ UNCHANGED <<worker, created, isLoaded, loadPromise, loadWaiters>>
          /\ IF calls'[c].kind = "load"
             THEN /\ calls'[c].promise = "resolved"
                  /\ UNCHANGED <<currentCallback, logs, timeoutId, timers>>
             ELSE calls'[c].pc = "reading"]_vars

\* load was called with a callback while the engine was loaded, and resolved
\* without having awaited anything
C11_Witness ==
  \E c \in Calls :
    /\ isLoaded
    /\ calls[c].kind = "load"
    /\ calls[c].cb
    /\ calls[c].lw = 0
    /\ calls[c].promise = "resolved"
    /\ updates[c] = <<>>

\* call c is a command whose handleResult has seen a complete or an error
ResultHandled(c) ==
  /\ calls[c].kind \in CommandKinds
  /\ calls[c].pc \in {"done", "deaf"}
  /\ calls[c].error \notin {"fewclips", "capability", "noworker", "read", "Failed to load FFmpeg"}

\* C12: the dispatch of a complete or error event leaves no handleResult on
\* the worker that saw it, and once the handleResult of a command has seen
\* such an event the command is not listening any more, so that the complete
\* or error event of any other command leaves its promise as it is.
C12_ListenerRemoved ==
  [][\A c \in Calls :
       /\ (Dispatches({"complete", "error"}) /\ c \in SeqToSet(resultListeners))
            => c \notin SeqToSet(resultListeners')
       /\ ResultHandled(c)
            => /\ c \notin SeqToSet(resultListeners)
               /\ (Dispatches({"complete", "error"}) /\ Head(outbox).call # c)
                    => (calls'[c] = calls[c] /\ c \notin SeqToSet(resultListeners'))]_vars

\* two commands ran one after the other on the same worker and each resolved
\* with its own output
C12_Witness ==
  \E c, d \in Calls :
    /\ c < d
    /\ ResultHandled(c) /\ ResultHandled(d)
    /\ calls[c].lw = worker /\ calls[d].lw = worker
    /\ calls[c].promise = "resolved" /\ calls[c].result = c
    /\ calls[d].promise = "resolved" /\ calls[d].result = d

\* this step is the worker handling an execute message
Executes == \E ok \in BOOLEAN : WorkerExec(ok)

\* s is a prefix of t
IsPrefix(s, t) == Len(s) <= Len(t) /\ SubSeq(t, 1, Len(s)) = s

\* the status update handleMessage forwards for a progress, log, complete or
\* error event, as its status and progress
Forwarded(e) ==
  CASE e.type = "progress" -> <<"processing", e.progress>>
    [] e.type = "log" -> <<"processing", 0>>
    [] e.type = "complete" -> <<"complete", 100>>
    [] e.type = "error" -> <<"error", 0>>

\* call c is the only command invoked so far
OnlyCommand(c) ==
  /\ calls[c].kind \in CommandKinds
  /\ \A d \in Calls \ {c} : calls[d].kind \notin CommandKinds

\* C13: the worker answers an execute message with progress and log events of
\* that command followed by exactly one complete or error event; the main
\* thread dispatches the events in the order they were sent and every dispatch
\* appends the update of the event at the end of what the current callback has
\* received, leaving earlier updates where they were; the events of a command
\* that runs alone reach its own callback; and the dispatch of a complete
\* clears the timer and has handed the complete update to the current
\* callback when it resolves the promise.
C13_OrderedUpdates ==
  [][/\ Executes =>
          LET c == Head(inbox).call
              n == Len(outbox')
              sent == SubSeq(outbox', Len(outbox) + 1, n)
          IN /\ IsPrefix(outbox, outbox')
             /\ n > Len(outbox)
             /\ outbox'[n].type \in {"complete", "error"}
             /\ \A i \in 1..Len(sent) :
                  /\ sent[i].call = c
                  /\ i < Len(sent) => sent[i].type \in {"progress", "log"}
     /\ Dispatches({"progress", "log", "complete", "error"}) =>
          LET e == Head(outbox)
              cc == currentCallback
          IN /\ outbox' = Tail(outbox)
             /\ \A c \in Calls : IsPrefix(updates[c], updates'[c])
             /\ \A c \in Calls \ {cc} : updates'[c] = updates[c]
             /\ (cc # 0 /\ calls[cc].cb) =>
                  /\ Len(updates'[cc]) = Len(updates[cc]) + 1
                  /\ LET u == updates'[cc][Len(updates'[cc])]
                     IN <<u.status, u.progress>> = Forwarded(e)
             /\ (e.call # 0 /\ OnlyCommand(e.call)) => cc = e.call
             /\ e.type = "complete" =>
                  /\ timeoutId' = 0
                  /\ \A c \in Calls :
                       (calls[c].promise = "pending" /\ calls'[c].promise = "resolved")
                         => /\ cc # 0
                            /\ updates'[cc][Len(updates'[cc])].status = "complete"]_vars

\* a command that ran alone resolved with its own output after its callback
\* received a processing update and then the complete update
C13_Witness ==
  \E c \in Calls :
    /\ OnlyCommand(c)
    /\ calls[c].promise = "resolved"
    /\ calls[c].result = c
    /\ timeoutId = 0
    /\ LET n == Len(updates[c])
       IN /\ n >= 2
          /\ updates[c][n].status = "complete"
          /\ updates[c][n - 1].status = "processing"

\* C14: never more than one timer is armed, and it is the one this.timeoutId
\* names: a command that begins (at once, or when the loaded event wakes it)
\* leaves its own timer as the only armed one, and the step that dispatches a
\* complete or error event, and forwards its update, leaves no timer armed.
C14_OneTimer ==
  [][/\ Cardinality(timers') <= 1
     /\ timers' = IF timeoutId' = 0 THEN {} ELSE {timeoutId'}
     /\ \A c \in Calls :
          (Starts(c) /\ calls'[c].pc = "reading") => timers' = {c}
     /\ (Dispatches({"loaded"}) /\ loadListener /\ CmdWaiters # <<>>)
          => timers' = {CmdWaiters[Len(CmdWaiters)]}
     /\ Dispatches({"complete", "error"}) => (timers' = {} /\ timeoutId' = 0)]_vars

\* two commands had begun, the second re-arming the timer of the first, when
\* the complete event of the first was dispatched and left no timer armed
C14_Witness ==
  \E c, d \in Calls :
    /\ c # d
    /\ calls[c].promise = "resolved" /\ calls[c].result = c
    /\ calls[d].promise = "resolved" /\ calls[d].result = c
    /\ created = 1 /\ crashes = 0 /\ worker = 1
    /\ timers = {}

\* C15: an error event the worker raises while a command waits for its result
\* rejects the promise of that command and hands its callback an error update,
\* and no execute message is posted afterwards to the worker that raised it.
C15_WorkerErrorFails ==
  [][\A c \in Calls :
       /\ (handleError /\ calls[c].pc = "executing" /\ calls[c].lw = worker)
            => /\ calls'[c].promise = "rejected"
               /\ currentCallback = c => GotError(c)'
       /\ (crashes > 0 /\ created = 1 /\ calls[c].pc = "reading")
            => calls'[c].pc # "executing"]_vars

\* C16: a log event the worker sends while it loads is handed, as a processing
\* update, to the callback of the load call that posted the load message.
C16_LoadLogsToLoadCallback ==
  [][(/\ Dispatches({"log"})
      /\ Head(outbox).call = 0
      /\ loadWaiters # <<>>
      /\ calls[loadWaiters[1]].cb)
     => LET c == loadWaiters[1]
            n == Len(updates'[c])
        IN /\ n = Len(updates[c]) + 1
           /\ updates'[c][n].status = "processing"
           /\ updates'[c][n].message = Head(outbox).message]_vars

\* an argument list of the concat demuxer
IsConcat(args) == Len(args) >= 2 /\ args[1] = "-f" /\ args[2] = "concat"

\* an argument list that copies the streams (-c copy)
StreamCopy(args) == \E k \in 1..(Len(args) - 1) : args[k] = "-c" /\ args[k + 1] = "copy"

\* C17: a merge of n clips calls the engine n times to normalize and only then
\* to concatenate; whatever the format, the first concatenation copies the
\* streams; when that call is rejected a second concatenation runs, with other
\* arguments and re-encoding; a merge that completes carries its output.
C17_CopyThenReencode ==
  command.type = "merge" =>
    LET n == command.clips
        attempts == SubSeq(execCalls, n + 1, Len(execCalls))
    IN /\ \A k \in 1..Len(execCalls) : IsConcat(execCalls[k]) <=> k > n
       /\ Len(attempts) >= 1 => StreamCopy(attempts[1])
       /\ at = "fallback" => Len(attempts) = 2
       /\ Len(attempts) = 2 => (~StreamCopy(attempts[2]) /\ attempts[2] # attempts[1])
       /\ at \in {"complete", "resolved"} => payload.field = "data"

\* this step posts message k of the command, a progress message
PostsProgress(k) ==
  /\ k > Len(posted)
  /\ k <= Len(posted')
  /\ posted'[k].type = "progress"

\* C18: in a merge of n clips a progress value posted while clip i is being
\* normalized is at least round(i/n*50) and at most 50, a progress value
\* posted from the concatenation on is one of 50, 60 and 95, and no progress
\* value is smaller than one posted before it.
C18_MergeProgress ==
  [][command.type = "merge" =>
       \A k \in 1..Len(posted') :
         PostsProgress(k) =>
           LET v == posted'[k].progress
           IN /\ at' = "normalizing" =>
                   /\ v >= (100 * clipIndex' + command.clips) \div (2 * command.clips)
                   /\ v <= 50
              /\ at' \in {"concat", "fallback", "complete"} => v \in {50, 60, 95}
              /\ \A j \in 1..(k - 1) :
                   posted'[j].type = "progress" => posted'[j].progress <= v]_vars

\* the argument that follows -crf in an argument list
CrfArg(args) == args[(CHOOSE k \in 1..Len(args) : args[k] = "-crf") + 1]

\* C19: the -crf argument executeConvert hands to the engine is 40 for low, 32
\* for medium, 24 for high and 32 for any other quality; the CRF the convert
\* controls show for the selected tier is the one a convert of that tier
\* passes, and a convert started from the controls passes the CRF that was on
\* screen when it was started.
C19_QualityTable ==
  /\ toString(QUALITY_LABELS(quality).crf) = CrfArg(convertArgs(quality))
  /\ (command.type = "convert" /\ execCalls # <<>>) =>
       /\ CrfArg(execCalls[1]) =
            CASE command.quality = "low" -> "40"
              [] command.quality = "medium" -> "32"
              [] command.quality = "high" -> "24"
              [] OTHER -> "32"
       /\ shownCrf # "" => CrfArg(execCalls[1]) = shownCrf

\* the controls showed CRF 40 for low and the engine was called with -crf 40
C19_Witness ==
  /\ command.type = "convert"
  /\ command.quality = "low"
  /\ quality = "low"
  /\ shownCrf = "40"
  /\ at = "exec"
  /\ CrfArg(execCalls[1]) = "40"

\* the bytes of a list of frames, as (frame, position) pairs
FrameBytes(frames) ==
  UNION {{<<k, j>> : j \in 1..Len(frames[k].data)} : k \in 1..Len(frames)}

\* C20: the result a command resolves with has the type of the command, the
\* filename trimmed_<now>.mp4, converted_<now>.webm, merged_<now>.mp4 or .webm
\* by format, or frames_<now>.zip, and a size that is the number of bytes of
\* the output; trim, convert and merge carry a URL of the output bytes, of
\* type video/mp4 (trim, mp4 merge) or video/webm (convert, webm merge);
\* an extraction carries one image/jpeg URL per frame and the empty URL.
C20_Materialized ==
  at = "resolved" =>
    LET r == exportResult
        t == command.type
        ext == CASE t = "trim" -> ".mp4"
                 [] t = "convert" -> ".webm"
                 [] t = "merge" -> IF command.format = "webm" THEN ".webm" ELSE ".mp4"
                 [] t = "frames" -> ".zip"
        prefix == CASE t = "trim" -> "trimmed_"
                    [] t = "convert" -> "converted_"
                    [] t = "merge" -> "merged_"
                    [] t = "frames" -> "frames_"
    IN /\ r.type = t
       /\ \E now \in 1..MaxNow : r.filename = prefix \o toString(now) \o ext
       /\ t \in {"trim", "convert", "merge"} =>
            /\ r.size = Len(payload.data)
            /\ r.data = payload.data
            /\ r.objectUrl.bytes = payload.data
            /\ r.objectUrl.type =
                 (IF t = "convert" \/ (t = "merge" /\ command.format = "webm")
                  THEN "video/webm" ELSE "video/mp4")
       /\ t = "frames" =>
            /\ r.size = Cardinality(FrameBytes(payload.frames))
            /\ r.objectUrl = NoUrl
            /\ Len(r.frames) = Len(payload.frames)
            /\ \A k \in 1..Len(r.frames) :
                 /\ r.frames[k].objectUrl.type = "image/jpeg"
                 /\ r.frames[k].objectUrl.bytes = payload.frames[k].data

\* a merge to webm resolved with an output of MaxBytes bytes
C20_Witness ==
  /\ at = "resolved"
  /\ command.type = "merge"
  /\ command.format = "webm"
  /\ exportResult.size = MaxBytes
  /\ exportResult.objectUrl.type = "video/webm"

\* command c goes on after its load in this step: this.logs = [], ...
Begins(c) ==
  /\ calls[c].pc \in {"idle", "awaitLoad"}
  /\ calls'[c].pc = "reading"

\* C21: the step in which a command goes on after its load leaves this.logs
\* empty; the dispatch of a log event with a message appends the message to
\* this.logs and hands the current callback a processing update whose logs
\* are the whole of this.logs; and a log line of a command is only ever handed
\* to the callback of that command.
C21_LogAccumulator ==
  [][/\ (\E c \in Calls : Begins(c)) => logs' = <<>>
     /\ (Dispatches({"log"}) /\ Head(outbox).message # "") =>
          LET e == Head(outbox)
              cc == currentCallback
          IN /\ ~(\E c \in Calls : Begins(c)) => logs' = Append(logs, e.message)
             /\ (cc # 0 /\ calls[cc].cb) =>
                  updates'[cc] = Append(updates[cc],
                                        Upd("processing", 0, e.message, Append(logs, e.message)))
             /\ (e.call # 0 /\ cc # 0) => cc = e.call]_vars

\* the messages the client posts to the worker in this step
PostedNow ==
  IF Len(inbox') > Len(inbox) THEN SubSeq(inbox', Len(inbox) + 1, Len(inbox')) ELSE <<>>

C25_OneLoadPerWorker ==
  /\ loadsPosted <= 1
  /\ Len(SelectSeq(inbox, LAMBDA m : m.type = "load")) <= loadsPosted
  /\ engine # "unloaded" => loadsPosted = 1
  /\ worker = 0 => loadsPosted = 0

\* the load of the live worker failed, and a call made afterwards got the same
\* failure without a second load message
C25_Witness ==
  \E c \in Calls :
    /\ engine = "failed"
    /\ loadPromise.state = "rejected"
    /\ calls[c].lw = 0
    /\ calls[c].error = "Failed to load FFmpeg"
    /\ loadsPosted = 1

\* isLoaded implies a live worker with a loaded engine and a recorded load
\* promise (settled, but not always resolved: an error event of a command that
\* ran into the load rejects the promise of a load that then succeeds)
LoadedSession ==
  isLoaded => /\ worker # 0
              /\ loadPromise.state \in {"resolved", "rejected"}
              /\ engine = "loaded"

\* C26: isLoaded becomes true only in the dispatch of a loaded event of the
\* live worker while the load promise is pending (a load was requested); once
\* true it stays true until the worker is torn down, and the teardown resets
\* it together with the load promise; in every state isLoaded implies that a
\* worker exists and a load promise is recorded.
C26_IsLoaded ==
  [][/\ LoadedSession
     /\ LoadedSession'
     /\ (~isLoaded /\ isLoaded') =>
          /\ Dispatches({"loaded"})
          /\ loadPromise.state # "null"
          /\ loadsPosted = 1
          /\ worker' = worker
     /\ (isLoaded /\ ~isLoaded') =>
          /\ worker' # worker
          /\ loadPromise' = NoPromise]_vars

\* the engine is loaded on a worker that replaced a torn-down one
C26_Witness ==
  /\ isLoaded
  /\ created > 1
  /\ worker = created
  /\ loadPromise.state = "resolved"

\* C28: a timer is armed only while its command is pending: once the promise
\* of a command has settled, for whatever reason (the failure to read the
\* input file after the timer was started included), no timer holding the
\* callback of that command remains armed.
C28_TimerOnlyWhilePending ==
  \A c \in Calls : c \in timers => calls[c].promise = "pending"

\* command c has begun and its promise is not settled
InFlight(c) ==
  /\ calls[c].kind \in CommandKinds
  /\ calls[c].pc \in {"reading", "executing"}

\* C29: while two commands are in flight on the client, each of them has an
\* armed timer, its promise is settled only in the step that dispatches the
\* complete or error event of its own command (or by the failure to read its
\* own input), and it resolves with the output of its own command.
C29_OverlapIsolated ==
  [][\A c, d \in Calls :
       (c # d /\ InFlight(c) /\ InFlight(d))
       => /\ c \in timers
          /\ calls'[c].promise # "pending"
               => \/ Dispatches({"complete", "error"}) /\ Head(outbox).call = c
                  \/ calls'[c].error \in {"read", "noworker"}
          /\ calls'[c].promise = "resolved" => calls'[c].result = c]_vars

\* the callback of call c has received its terminal status update
Finished(c) ==
  /\ updates[c] # <<>>
  /\ updates[c][Len(updates[c])].status \in {"complete", "error"}

\* C30: once the callback of a call has received its terminal status update
\* (complete, error, or the error of the timeout) it receives no further
\* status update: neither the log events of a later load nor a later worker
\* error reach it (every call of the model passes a callback of its own).
C30_NoUpdateAfterTerminal ==
  [][\A c \in Calls : Finished(c) => updates'[c] = updates[c]]_vars

\* C24: the dispatch of a progress event that carries a progress value hands
\* the current callback one processing update with that value, whose message
\* is the step label of the event if it has one, else the message of the event
\* if it has one, else the generic text with the percentage, and whose logs
\* are the accumulated ones; the dispatch of a progress event without a
\* progress value hands no update to anyone.
C24_ProgressForwarded ==
  [][Dispatches({"progress"}) =>
       LET e == Head(outbox)
           cc == currentCallback
           text == IF e.step # "" THEN e.step
                   ELSE IF e.message # "" THEN e.message
                   ELSE "Processing... " \o toString(e.progress) \o "%"
       IN IF e.progress >= 0 /\ cc # 0 /\ calls[cc].cb
          THEN updates' = [updates EXCEPT
                 ![cc] = Append(@, Upd("processing", e.progress, text, logs))]
          ELSE updates' = updates]_vars

\* a progress event with a value and neither step nor message was forwarded
\* with the generic text
C24_Witness ==
  /\ outbox = <<>>
  /\ updates[1] = <<Upd("processing", 7, "Processing... 7%", logs)>>
  /\ logs # <<>>

\* C22: the page never releases an object URL in the step that removes or
\* closes the video, export or preview it belongs to: a URL that the page has
\* taken over (it is not one of a file whose metadata failed to load) is
\* released only by a timer of revokeObjectURLDeferred that has run for the
\* grace delay of 2000 ms, in a later step that removes and closes nothing.
C22_DeferredRelease ==
  [][\A u \in liveUrls \ liveUrls' :
       u \notin probing
       => /\ \E t \in revokeTimers : t.url = u /\ t.elapsed >= 2000
          /\ UNCHANGED <<video, exports, previewResult>>]_vars

\* the result of a command was listed and removed, and its URLs were released
\* by their timers
C22_Witness ==
  /\ \E c \in Calls : calls[c].promise = "resolved"
  /\ exports = <<>>
  /\ previewResult = NoPreview
  /\ revokeTimers = {}
  /\ \E u \in revokedUrls : u # video /\ u > 1

\* C27: the page serializes its calls of the client: a command is started
\* only while no earlier command of the page is unsettled.
C27_Serialized ==
  [][\A c \in Calls :
       Starts(c) => \A d \in Calls \ {c} : calls[d].promise # "pending"]_vars

\* C31: the object URLs of an export that is listed in the export history are
\* valid: none of them has been released.
C31_ListedUrlsLive ==
  \A i \in 1..Len(exports) : UrlsOf(exports[i]) \subseteq liveUrls

\* C32: once an execute command has finished in the worker, with complete or with
\* error, the engine's virtual filesystem holds none of the names the command
\* created.
C32_FilesystemRestored ==
  at \in {"complete", "failed", "resolved"} => vfs = {}

\* C33: a merge invoked with fewer than 2 clips rejects at once and does nothing
\* else: no load starts, nothing is posted to the worker, the log accumulator,
\* the active callback and the timers stay as they are and no callback is
\* invoked; and the worker answers an execute of a merge with fewer than 2
\* clips with an error event, without running the engine.
C33_FewClipsRejected ==
  [][/\ \A c \in Calls :
          (Starts(c) /\ calls'[c].kind = "merge" /\ calls'[c].clips < 2) =>
            /\ calls'[c].pc = "done"
            /\ calls'[c].promise = "rejected"
            /\ calls'[c].error = "fewclips"
            /\ UNCHANGED <<loadPromise, loadWaiters, loadListener, loadsPosted, inbox, outbox,
                           logs, currentCallback, timeoutId, timers, updates, worker,
                           created, isLoaded, engine, resultListeners>>
     /\ (at = "posted" /\ command.type = "merge" /\ command.clips < 2 /\ at' # at) =>
          /\ at' = "failed"
          /\ Len(posted') = Len(posted) + 1
          /\ posted'[Len(posted')].type = "error"
          /\ execCalls' = execCalls
          /\ vfs' = vfs]_vars

\* a merge with one clip was rejected on a loaded client whose previous command
\* left logs behind, and the worker answered a short merge with error
C33_Witness ==
  /\ \E c \in Calls : calls[c].kind = "merge" /\ calls[c].clips = 1 /\ calls[c].error = "fewclips"
  /\ isLoaded
  /\ logs # <<>>
  /\ at = "failed"
  /\ command.clips < 2
  /\ posted # <<>>

\* C34: within a command the progress its callback sees changes only on
\* progress events: the update forwarded for a log event carries the progress
\* of the last update the callback received for the command.
C34_LogKeepsProgress ==
  [][(/\ Dispatches({"log"})
      /\ Head(outbox).message # ""
      /\ currentCallback # 0
      /\ calls[currentCallback].cb
      /\ updates[currentCallback] # <<>>) =>
       LET cc == currentCallback
           before == updates[cc][Len(updates[cc])]
           after == updates'[cc][Len(updates'[cc])]
       IN after.progress = before.progress]_vars

====
